---- MODULE Spec2Model ----
(***************************************************************************)
(* Batch submission controller (BatchProcessor), job poller (useJobPoller) *)
(* and selection set (App) of the billing front end, as one state machine. *)
(*                                                                         *)
(* One action is one task of the single JavaScript thread: an event        *)
(* handler, a timer callback or the continuation of an awaited request,    *)
(* together with the render it causes and the effects of that render.      *)
(* State updates of one task are batched into one render; the effect of    *)
(* useJobPoller (cleanup of the old job id, start of the new one) runs     *)
(* with that render, and the state it sets causes one more render.         *)
(* A job id is a number 1..MaxJobs, 0 is null; "null" is the null string.  *)
(***************************************************************************)
EXTENDS Integers, FiniteSets, Bags, TLC

\* ---- bounds of the model
NumDocs == 2
MaxJobs == 2
MaxInFlight == 2
MaxPending == 1
MaxCalls == 2
MaxDocFetch == 1
NumFilters == 2
MaxPage == 1

Docs == 1..NumDocs
JobIds == 1..MaxJobs
FilterVals == 1..NumFilters

\* ---- program constants
Null == "null"
INITIAL_FILTERS == 1
NON_TERMINAL_STATES == {"processing"}
TERMINAL_STATES == {"completed", "failed"}
Status == NON_TERMINAL_STATES \cup TERMINAL_STATES
JobErrMsg == "job error"
PollErrMsg == "fetch failed"
SubmitErrMsg == "rate limited"

NoJob == [id |-> 0, status |-> Null, error_message |-> Null]

VARIABLES
    \* App
    selectedIds, filters, skip, docsInFlight, mounted,
    \* BatchProcessor
    jobId, submitting, submitError,
    \* useJobPoller
    job, isPolling, error, intervalRef, timers,
    \* requests in flight, the server's jobs, deferred onComplete calls
    createReqs, inFlight, srv, pendingComplete,
    \* history: calls of onComplete per job, the last response per job, the jobs
    \* a terminal status or a failed fetch was delivered for, and what the task
    \* that ran last did with a click on Process ("none" when it was no click)
    completeCalls, lastResp, ended, lastClick

appVars == <<selectedIds, filters, skip, docsInFlight, mounted>>
ctlVars == <<jobId, submitting, submitError>>
pollVars == <<job, isPolling, error, intervalRef, timers>>
envVars == <<createReqs, inFlight, srv, pendingComplete>>
histVars == <<completeCalls, lastResp, ended, lastClick>>
vars == <<appVars, ctlVars, pollVars, envVars, histVars>>

Min(a, b) == IF a < b THEN a ELSE b

\* ---- the server's view of a job: processing -> completed | failed
\* (queued is not told apart from processing: the client treats both alike)
Rank(s) == IF s \in NON_TERMINAL_STATES THEN 0 ELSE 1
Reach(a, b) == a = b \/ Rank(a) < Rank(b)

\* the body of GET /jobs/{id} for a job in status s
JobData(j, s) ==
    [id |-> j, status |-> s,
     error_message |-> IF s = "failed" THEN JobErrMsg ELSE Null]

\* ---- useJobPoller

\* stop() without its setIsPolling(false)
stopKeepsPolling(ref, tms) ==
    [intervalRef |-> 0,
     timers |-> IF ref # 0 THEN tms \ {ref} ELSE tms,
     isPolling |-> TRUE]

\* stop() without its clearInterval: the ref is nulled, the interval lives on
stopKeepsTimer(ref, tms) ==
    [intervalRef |-> 0, timers |-> tms, isPolling |-> FALSE]

\* stop(): clear the interval the ref holds, null the ref, setIsPolling(false)
stop(ref, tms) ==
    [intervalRef |-> 0,
     timers |-> IF ref # 0 THEN tms \ {ref} ELSE tms,
     isPolling |-> FALSE]

\* an effect that returns no cleanup
CleanupMissing(jid, ref, tms, polling) ==
    [intervalRef |-> ref, timers |-> tms, isPolling |-> polling]

\* the cleanup the effect of job id jid returned: stop for a job id, none for null
Cleanup(jid, ref, tms, polling) ==
    IF jid # 0 THEN stop(ref, tms)
    ELSE [intervalRef |-> ref, timers |-> tms, isPolling |-> polling]

\* api.getJob(j) issued now: the response reports a status the job has from now on
Fetch(j) == [job |-> j, lo |-> srv[j]]

NumInFlight == BagCardinality(inFlight)

\* ---- BatchProcessor

isCompleted(jb) == jb.status = "completed"
isFailed(jb) == jb.status = "failed"

\* one evaluation of the component body showing job value jb: a completed job
\* defers one more call of onComplete (deferred calls counted up to MaxPending)
Render(jb, pend) ==
    IF isCompleted(jb)
    THEN [pend EXCEPT ![jb.id] = Min(@ + 1, MaxPending)]
    ELSE pend

\* a button that stays disabled as long as any job id is bound
ButtonDisabledWhileJobBound ==
    selectedIds = {} \/ submitting \/ isPolling \/ jobId # 0

\* the disabled attribute of the Process button
ButtonDisabled == selectedIds = {} \/ submitting \/ isPolling

\* neither the button nor handleProcess looks at the size of the selection
SubmitAcceptedAnySelection == ~(submitting \/ isPolling)

\* a click reaches handleProcess and passes its guard
SubmitAccepted == ~ButtonDisabled /\ selectedIds # {}

\* ---- App

fetchDocuments(n) == Min(n + 1, MaxDocFetch)

Init ==
    /\ selectedIds = {}
    /\ filters = INITIAL_FILTERS
    /\ skip = 0
    /\ docsInFlight = fetchDocuments(0)
    /\ mounted = TRUE
    /\ jobId = 0
    /\ submitting = FALSE
    /\ submitError = Null
    /\ job = NoJob
    /\ isPolling = FALSE
    /\ error = Null
    /\ intervalRef = 0
    /\ timers = {}
    /\ createReqs = EmptyBag
    /\ inFlight = EmptyBag
    /\ srv = [j \in JobIds |-> "none"]
    /\ pendingComplete = [j \in JobIds |-> 0]
    /\ completeCalls = [j \in JobIds |-> 0]
    /\ lastResp = [j \in JobIds |-> "none"]
    /\ ended = {}
    /\ lastClick = "none"

\* handleToggleSelect(id)
Toggle(id) ==
    /\ mounted
    /\ selectedIds' = IF id \in selectedIds THEN selectedIds \ {id}
                      ELSE selectedIds \cup {id}
    /\ pendingComplete' = Render(job, pendingComplete)
    /\ lastClick' = "none"
    /\ UNCHANGED <<filters, skip, docsInFlight, mounted, ctlVars, pollVars,
                   createReqs, inFlight, srv, completeCalls, lastResp, ended>>

\* handleFilterChange without its setSelectedIds(new Set())
FilterChangeKeepsSelection(f) ==
    /\ mounted
    /\ f # filters
    /\ skip' = 0
    /\ filters' = f
    /\ docsInFlight' = fetchDocuments(docsInFlight)
    /\ pendingComplete' = Render(job, pendingComplete)
    /\ lastClick' = "none"
    /\ UNCHANGED <<selectedIds, mounted, ctlVars, pollVars, createReqs, inFlight,
                   srv, completeCalls, lastResp, ended>>

\* handleFilterChange(f), then the effect that re-fetches the documents
FilterChange(f) ==
    /\ mounted
    /\ f # filters
    /\ skip' = 0
    /\ filters' = f
    /\ selectedIds' = {}
    /\ docsInFlight' = fetchDocuments(docsInFlight)
    /\ pendingComplete' = Render(job, pendingComplete)
    /\ lastClick' = "none"
    /\ UNCHANGED <<mounted, ctlVars, pollVars, createReqs, inFlight, srv,
                   completeCalls, lastResp, ended>>

\* onPageChange(skip - limit) or onPageChange(skip + limit), in pages
PageChange(p) ==
    /\ mounted
    /\ p \in {skip - 1, skip + 1}
    /\ p \in 0..MaxPage
    /\ skip' = p
    /\ docsInFlight' = fetchDocuments(docsInFlight)
    /\ pendingComplete' = Render(job, pendingComplete)
    /\ lastClick' = "none"
    /\ UNCHANGED <<selectedIds, filters, mounted, ctlVars, pollVars, createReqs,
                   inFlight, srv, completeCalls, lastResp, ended>>

\* api.getDocuments settles: setDocuments/setTotal or setError, setLoading(false)
DocsResponse ==
    /\ docsInFlight > 0
    /\ docsInFlight' = docsInFlight - 1
    /\ pendingComplete' = IF mounted THEN Render(job, pendingComplete)
                          ELSE pendingComplete
    /\ lastClick' = "none"
    /\ UNCHANGED <<selectedIds, filters, skip, mounted, ctlVars, pollVars,
                   createReqs, inFlight, srv, completeCalls, lastResp, ended>>

\* a click on the Process button: ignored when the button is disabled or the
\* selection is empty, otherwise handleProcess up to its await
Submit ==
    /\ mounted
    /\ IF SubmitAccepted
       THEN LET c == Cleanup(jobId, intervalRef, timers, isPolling)
                p1 == Render(job, pendingComplete)
            IN  /\ submitting' = TRUE
                /\ submitError' = Null
                /\ jobId' = 0
                /\ createReqs' = createReqs (+) SetToBag({[ids |-> selectedIds]})
                /\ intervalRef' = c.intervalRef
                /\ timers' = c.timers
                /\ isPolling' = c.isPolling
                /\ pendingComplete' = IF c.isPolling # isPolling
                                      THEN Render(job, p1) ELSE p1
                /\ lastClick' = "accepted"
                /\ UNCHANGED <<job, error>>
       ELSE /\ lastClick' = "refused"
            /\ UNCHANGED <<ctlVars, pollVars, createReqs, pendingComplete>>
    /\ UNCHANGED <<appVars, inFlight, srv, completeCalls, lastResp, ended>>

\* the smallest job id the server has not handed out
FreshJob(j) == srv[j] = "none" /\ \A k \in JobIds : k < j => srv[k] # "none"

\* POST /documents/batch/process answers 2xx with job_id nj: setJobId(nj),
\* setSubmitting(false), and the poller's effect for the new job id
CreateOk(r, nj) ==
    /\ r \in BagToSet(createReqs)
    /\ FreshJob(nj)
    /\ createReqs' = createReqs (-) SetToBag({r})
    /\ srv' = [srv EXCEPT ![nj] = "processing"]
    /\ lastClick' = "none"
    /\ IF mounted
       THEN LET c == Cleanup(jobId, intervalRef, timers, isPolling)
            IN  /\ NumInFlight < MaxInFlight
                /\ jobId' = nj
                /\ submitting' = FALSE
                /\ isPolling' = TRUE
                /\ error' = Null
                /\ job' = NoJob
                /\ inFlight' = inFlight (+) SetToBag({[job |-> nj, lo |-> "processing"]})
                /\ intervalRef' = nj
                /\ timers' = c.timers \cup {nj}
                /\ pendingComplete' = Render(job, pendingComplete)
                /\ UNCHANGED submitError
       ELSE UNCHANGED <<ctlVars, pollVars, inFlight, pendingComplete>>
    /\ UNCHANGED <<appVars, completeCalls, lastResp, ended>>

\* the catch without the finally: submitting is never reset
CreateFailKeepsSubmitting(r) ==
    /\ r \in BagToSet(createReqs)
    /\ createReqs' = createReqs (-) SetToBag({r})
    /\ lastClick' = "none"
    /\ IF mounted
       THEN /\ submitError' = SubmitErrMsg
            /\ pendingComplete' = Render(job, pendingComplete)
            /\ UNCHANGED <<jobId, submitting>>
       ELSE UNCHANGED <<ctlVars, pendingComplete>>
    /\ UNCHANGED <<appVars, pollVars, inFlight, srv, completeCalls, lastResp, ended>>

\* the creation request fails (network fault or non-2xx)
CreateFail(r) ==
    /\ r \in BagToSet(createReqs)
    /\ createReqs' = createReqs (-) SetToBag({r})
    /\ lastClick' = "none"
    /\ IF mounted
       THEN /\ submitError' = SubmitErrMsg
            /\ submitting' = FALSE
            /\ pendingComplete' = Render(job, pendingComplete)
            /\ UNCHANGED jobId
       ELSE UNCHANGED <<ctlVars, pendingComplete>>
    /\ UNCHANGED <<appVars, pollVars, inFlight, srv, completeCalls, lastResp, ended>>

\* a poll that gives up when the previous fetch has not come back: it reports
\* an error and stops instead of fetching again
TickTimesOut(t) ==
    /\ t \in timers
    /\ NumInFlight < MaxInFlight
    /\ lastClick' = "none"
    /\ IF \E f \in BagToSet(inFlight) : f.job = t
       THEN LET st == stop(intervalRef, timers)
            IN  /\ intervalRef' = st.intervalRef
                /\ timers' = st.timers
                /\ isPolling' = st.isPolling
                /\ error' = PollErrMsg
                /\ pendingComplete' = Render(job, pendingComplete)
                /\ UNCHANGED <<job, inFlight>>
       ELSE /\ inFlight' = inFlight (+) SetToBag({Fetch(t)})
            /\ UNCHANGED <<pollVars, pendingComplete>>
    /\ UNCHANGED <<appVars, ctlVars, createReqs, srv, completeCalls, lastResp, ended>>

\* the interval of job id t fires: poll() issues a fetch
Tick(t) ==
    /\ t \in timers
    /\ NumInFlight < MaxInFlight
    /\ inFlight' = inFlight (+) SetToBag({Fetch(t)})
    /\ lastClick' = "none"
    /\ UNCHANGED <<appVars, ctlVars, pollVars, createReqs, srv, pendingComplete,
                   completeCalls, lastResp, ended>>

\* poll without its stop() on a terminal status
RespDataNeverStops(f, s) ==
    /\ f \in BagToSet(inFlight)
    /\ s \in Status
    /\ Reach(f.lo, s) /\ Reach(s, srv[f.job])
    /\ inFlight' = inFlight (-) SetToBag({f})
    /\ IF mounted
       THEN /\ job' = JobData(f.job, s)
            /\ pendingComplete' = Render(JobData(f.job, s), pendingComplete)
       ELSE UNCHANGED <<job, pendingComplete>>
    /\ lastResp' = [lastResp EXCEPT ![f.job] = s]
    /\ ended' = IF s \in TERMINAL_STATES THEN ended \cup {f.job} ELSE ended
    /\ lastClick' = "none"
    /\ UNCHANGED <<appVars, ctlVars, error, isPolling, intervalRef, timers,
                   createReqs, srv, completeCalls>>

\* a fetch resolves with status s: setJob(data), stop() on a terminal status
RespData(f, s) ==
    /\ f \in BagToSet(inFlight)
    /\ s \in Status
    /\ Reach(f.lo, s) /\ Reach(s, srv[f.job])
    /\ inFlight' = inFlight (-) SetToBag({f})
    /\ LET st == IF s \in TERMINAL_STATES THEN stop(intervalRef, timers)
                 ELSE [intervalRef |-> intervalRef, timers |-> timers,
                       isPolling |-> isPolling]
       IN  /\ intervalRef' = st.intervalRef
           /\ timers' = st.timers
           /\ IF mounted
              THEN /\ job' = JobData(f.job, s)
                   /\ isPolling' = st.isPolling
                   /\ pendingComplete' = Render(JobData(f.job, s), pendingComplete)
              ELSE UNCHANGED <<job, isPolling, pendingComplete>>
    /\ lastResp' = [lastResp EXCEPT ![f.job] = s]
    /\ ended' = IF s \in TERMINAL_STATES THEN ended \cup {f.job} ELSE ended
    /\ lastClick' = "none"
    /\ UNCHANGED <<appVars, ctlVars, error, createReqs, srv, completeCalls>>

\* a rejected fetch reported as a failed job: setJob of a failed value as well
RespErrAsFailedJob(f) ==
    /\ f \in BagToSet(inFlight)
    /\ inFlight' = inFlight (-) SetToBag({f})
    /\ LET st == stop(intervalRef, timers)
       IN  /\ intervalRef' = st.intervalRef
           /\ timers' = st.timers
           /\ IF mounted
              THEN /\ error' = PollErrMsg
                   /\ job' = JobData(f.job, "failed")
                   /\ isPolling' = st.isPolling
                   /\ pendingComplete' = Render(job, pendingComplete)
              ELSE UNCHANGED <<error, job, isPolling, pendingComplete>>
    /\ lastResp' = [lastResp EXCEPT ![f.job] = "error"]
    /\ ended' = ended \cup {f.job}
    /\ lastClick' = "none"
    /\ UNCHANGED <<appVars, ctlVars, createReqs, srv, completeCalls>>

\* a fetch rejects: setError(err.message), stop()
RespErr(f) ==
    /\ f \in BagToSet(inFlight)
    /\ inFlight' = inFlight (-) SetToBag({f})
    /\ LET st == stop(intervalRef, timers)
       IN  /\ intervalRef' = st.intervalRef
           /\ timers' = st.timers
           /\ IF mounted
              THEN /\ error' = PollErrMsg
                   /\ isPolling' = st.isPolling
                   /\ pendingComplete' =
                          IF error # PollErrMsg \/ isPolling
                          THEN Render(job, pendingComplete) ELSE pendingComplete
              ELSE UNCHANGED <<error, isPolling, pendingComplete>>
    /\ lastResp' = [lastResp EXCEPT ![f.job] = "error"]
    /\ ended' = ended \cup {f.job}
    /\ lastClick' = "none"
    /\ UNCHANGED <<appVars, ctlVars, job, createReqs, srv, completeCalls>>

\* handleBatchComplete that only re-fetches the documents
CompleteKeepsSelection(j) ==
    /\ pendingComplete[j] > 0
    /\ completeCalls' = [completeCalls EXCEPT ![j] = Min(@ + 1, MaxCalls)]
    /\ docsInFlight' = fetchDocuments(docsInFlight)
    /\ LET p == [pendingComplete EXCEPT ![j] = @ - 1]
       IN  pendingComplete' = IF mounted THEN Render(job, p) ELSE p
    /\ lastClick' = "none"
    /\ UNCHANGED <<selectedIds, filters, skip, mounted, ctlVars, pollVars,
                   createReqs, inFlight, srv, lastResp, ended>>

\* a deferred onComplete runs: handleBatchComplete
Complete(j) ==
    /\ pendingComplete[j] > 0
    /\ completeCalls' = [completeCalls EXCEPT ![j] = Min(@ + 1, MaxCalls)]
    /\ docsInFlight' = fetchDocuments(docsInFlight)
    /\ LET p == [pendingComplete EXCEPT ![j] = @ - 1]
       IN  IF mounted
           THEN /\ selectedIds' = {}
                /\ pendingComplete' = Render(job, p)
           ELSE /\ pendingComplete' = p
                /\ UNCHANGED selectedIds
    /\ lastClick' = "none"
    /\ UNCHANGED <<filters, skip, mounted, ctlVars, pollVars, createReqs,
                   inFlight, srv, lastResp, ended>>

\* the page is torn down: the effect's cleanup runs. The state of App is
\* discarded (nothing reads it afterwards, it goes back to its initial value);
\* the state of BatchProcessor and of its poller is kept to tell whether a late
\* response still writes it (a setState after unmount does nothing)
Unmount ==
    /\ mounted
    /\ mounted' = FALSE
    /\ selectedIds' = {}
    /\ filters' = INITIAL_FILTERS
    /\ skip' = 0
    /\ LET c == Cleanup(jobId, intervalRef, timers, isPolling)
       IN  /\ intervalRef' = c.intervalRef
           /\ timers' = c.timers
           /\ isPolling' = c.isPolling
    /\ lastClick' = "none"
    /\ UNCHANGED <<docsInFlight, ctlVars, job, error, envVars, completeCalls,
                   lastResp, ended>>

\* the worker moves a job on
ServerStep(j, s) ==
    /\ srv[j] \in NON_TERMINAL_STATES
    /\ s \in Status
    /\ s # srv[j]
    /\ Reach(srv[j], s)
    /\ srv' = [srv EXCEPT ![j] = s]
    /\ UNCHANGED <<appVars, ctlVars, pollVars, createReqs, inFlight,
                   pendingComplete, histVars>>

Next ==
    \/ \E id \in Docs : Toggle(id)
    \/ \E f \in FilterVals : FilterChange(f)
    \/ \E p \in 0..MaxPage : PageChange(p)
    \/ DocsResponse
    \/ Submit
    \/ \E r \in BagToSet(createReqs), nj \in JobIds : CreateOk(r, nj)
    \/ \E r \in BagToSet(createReqs) : CreateFail(r)
    \/ \E t \in JobIds : Tick(t)
    \/ \E f \in BagToSet(inFlight), s \in Status : RespData(f, s)
    \/ \E f \in BagToSet(inFlight) : RespErr(f)
    \/ \E j \in JobIds : Complete(j)
    \/ Unmount
    \/ \E j \in JobIds, s \in Status : ServerStep(j, s)

Spec == Init /\ [][Next]_vars

\* the status fetches that can be in flight
FetchRecs == [job : JobIds, lo : Status]

\* nothing has been submitted yet
NothingSubmitted ==
    /\ jobId = 0
    /\ createReqs = EmptyBag
    /\ inFlight = EmptyBag
    /\ \A j \in JobIds : srv[j] = "none"

\* the steps of Next for a user who browses (filters, pages) before the first
\* submission, submits from the first page under the initial filters, and
\* selects among the documents only the first one; the controller, the poller,
\* the network and the server are unrestricted
LiveNext ==
    \/ Toggle(1)
    \/ NothingSubmitted /\ \E f \in FilterVals : FilterChange(f)
    \/ NothingSubmitted /\ \E p \in 0..MaxPage : PageChange(p)
    \/ DocsResponse
    \/ filters = INITIAL_FILTERS /\ skip = 0 /\ Submit
    \/ \E r \in BagToSet(createReqs), nj \in JobIds : CreateOk(r, nj)
    \/ \E r \in BagToSet(createReqs) : CreateFail(r)
    \/ \E t \in JobIds : Tick(t)
    \/ \E f \in BagToSet(inFlight), s \in Status : RespData(f, s)
    \/ \E f \in BagToSet(inFlight) : RespErr(f)
    \/ \E j \in JobIds : Complete(j)
    \/ Unmount
    \/ \E j \in JobIds, s \in Status : ServerStep(j, s)

\* the scheduling the runtime gives: an armed interval keeps firing, every
\* fetch in flight resolves or rejects, a deferred callback runs, and the
\* worker finishes every job it was given
FairSpec ==
    /\ Init
    /\ [][LiveNext]_vars
    /\ \A t \in JobIds : WF_vars(Tick(t))
    /\ \A f \in FetchRecs : WF_vars((\E s \in Status : RespData(f, s)) \/ RespErr(f))
    /\ \A j \in JobIds : WF_vars(Complete(j))
    /\ \A j \in JobIds : WF_vars(\E s \in TERMINAL_STATES : ServerStep(j, s))

TypeOK ==
    /\ selectedIds \subseteq Docs
    /\ jobId \in 0..MaxJobs
    /\ intervalRef \in 0..MaxJobs
    /\ timers \subseteq JobIds
    /\ NumInFlight <= MaxInFlight

\* ---- vocabulary of the properties

\* this step issues a status fetch for job j
Issued(j) ==
    \E f \in BagToSet(inFlight') :
        f.job = j /\ CopiesIn(f, inFlight') > CopiesIn(f, inFlight)

\* this step delivers the response of fetch f
Delivered(f) == CopiesIn(f, inFlight') < CopiesIn(f, inFlight)

\* the session of job j is the active one
SessionActive(j) == mounted /\ jobId = j /\ j \in timers

\* the controller is busy: a creation request is in flight, or the bound job has
\* shown neither a terminal status nor a polling error
Busy == createReqs # EmptyBag \/ (jobId # 0 /\ jobId \notin ended)

\* the job id assigned last (the server hands them out in order), 0 if none
LastJob ==
    IF \A j \in JobIds : srv[j] = "none" THEN 0
    ELSE CHOOSE j \in JobIds :
             srv[j] # "none" /\ \A k \in JobIds : srv[k] # "none" => k <= j

\* ---- C1: onComplete runs exactly once per completed job
\* C1 (as claimed): no job ever has the completion callback invoked for it more
\* than once, whatever re-renders follow its completed status.
C1_CompletionAtMostOnce == \A j \in JobIds : completeCalls[j] <= 1

\* ---- C2: a fetch outliving its session is discarded
\* C2 (as claimed): a response, resolved or rejected, of a fetch whose session
\* is no longer the active one never writes job, error or isPolling.
C2_StaleFetchDiscarded ==
    [][\A f \in BagToSet(inFlight) :
           (Delivered(f) /\ ~SessionActive(f.job))
               => UNCHANGED <<job, error, isPolling>>]_vars

\* ---- C3: no submission while busy
\* C3 (as claimed): a click on Process while a creation request is in flight or
\* the bound job is still non-terminal is refused and changes neither the
\* controller state nor the creation requests.
C3_BusySubmitRefused ==
    [][(Busy /\ Submit) => UNCHANGED <<ctlVars, createReqs>>]_vars

\* ---- C4: an empty selection is never submitted
\* C4: a click on Process with an empty selection issues no creation request and
\* changes no state of the controller or of the poller.
C4_EmptySubmitNoOp ==
    [][(selectedIds = {} /\ Submit)
           => UNCHANGED <<ctlVars, pollVars, createReqs, inFlight>>]_vars

\* an ignored click with nothing else in the way: only the selection is empty
C4_Witness ==
    /\ lastClick = "refused"
    /\ selectedIds = {}
    /\ ~submitting /\ ~isPolling
    /\ createReqs = EmptyBag

\* ---- C5: a failed job
\* C5 (as claimed): when the last response of a job reported failed, onComplete
\* was never called for it, and until the next job id is assigned the poller
\* shows that failed job with its error_message.
C5_FailedJobKept ==
    \A j \in JobIds :
        lastResp[j] = "failed" =>
            /\ completeCalls[j] = 0
            /\ (mounted /\ LastJob = j) => job = JobData(j, "failed")

\* ---- C6: ending a session cancels its timer
\* C6: the step in which the job id is cleared or replaced, or the owner
\* unmounted, leaves no timer armed for the old job id, and a status fetch is
\* only ever issued for the job id bound at that moment, while mounted.
C6_EndCancelsTimer ==
    [][/\ \A j \in JobIds :
              (jobId = j /\ (jobId' # j \/ (mounted /\ ~mounted')))
                  => j \notin timers'
       /\ \A j \in JobIds : Issued(j) => (mounted' /\ jobId' = j)]_vars

\* unmounted in the middle of the first job's polling: the timer is gone
C6_Witness ==
    /\ ~mounted
    /\ jobId = 1
    /\ 1 \notin ended
    /\ timers = {}

\* ---- C7: one fetch at a time
\* C7 (as claimed): no job ever has two status fetches in flight.
C7_FetchesSequential ==
    \A f \in BagToSet(inFlight) :
        /\ CopiesIn(f, inFlight) <= 1
        /\ \A g \in BagToSet(inFlight) : g.job = f.job => g = f

\* ---- C8: a terminal status ends the polling
\* C8: the step in which a fetch of the active session returns completed or
\* failed cancels the timer and sets isPolling to false, and no status fetch is
\* issued for a job id whose fetch has returned a terminal status.
C8_TerminalStops ==
    [][/\ \A f \in BagToSet(inFlight) : \A s \in {"completed", "failed"} :
              (SessionActive(f.job) /\ RespData(f, s))
                  => /\ timers' = {}
                     /\ intervalRef' = 0
                     /\ ~isPolling'
                     /\ job' = JobData(f.job, s)
       /\ \A j \in JobIds :
              Issued(j) => (j \notin ended /\ lastResp[j] \notin {"completed", "failed"})]_vars

\* the active session has just seen its terminal status
C8_Witness ==
    /\ mounted
    /\ jobId # 0
    /\ job.id = jobId
    /\ job.status \in {"completed", "failed"}
    /\ ~isPolling
    /\ timers = {}

\* ---- C9: a failed fetch is fail-stop
\* C9 (as claimed): the step in which a fetch of the active session rejects
\* exposes the message as error, cancels the timer and sets isPolling to false;
\* no fetch is issued for that job afterwards; and a job value that was null
\* when the session's responses so far all failed stays null while that job id
\* is bound.
C9_FetchFailureFailStop ==
    [][/\ \A f \in BagToSet(inFlight) :
              (SessionActive(f.job) /\ RespErr(f))
                  => /\ error' = PollErrMsg
                     /\ timers' = {}
                     /\ ~isPolling'
       /\ \A j \in JobIds : Issued(j) => lastResp[j] # "error"
       /\ (/\ mounted /\ jobId # 0 /\ jobId' = jobId
           /\ lastResp[jobId] = "error" /\ job = NoJob) => job' = NoJob]_vars

\* ---- C10: a failed creation request
\* C10: when the creation request fails the controller shows the message as
\* submitError, binds no job id, issues no fetch and arms no timer, and accepts
\* a click on Process as soon as the selection is non-empty; while submitError
\* is shown no job id is bound and nothing polls; an accepted click clears it.
C10_CreateFailResubmittable ==
    /\ [](submitError # Null => (jobId = 0 /\ timers = {} /\ ~isPolling))
    /\ [][/\ \A r \in BagToSet(createReqs) :
                 (mounted /\ CreateFail(r))
                     => /\ submitError' = SubmitErrMsg
                        /\ jobId' = 0
                        /\ inFlight' = inFlight
                        /\ (selectedIds' # {} => SubmitAccepted')
          /\ (Submit /\ createReqs' # createReqs) => submitError' = Null]_vars

\* the creation request has just failed and the next click will be accepted
C10_Witness ==
    /\ mounted
    /\ submitError = SubmitErrMsg
    /\ SubmitAccepted

\* ---- C11: three kinds of failure, three channels
\* C11: a failed creation request writes submitError and leaves error and job
\* alone; a rejected status fetch writes error and leaves submitError and job
\* alone (it never makes a failed job); a response reporting status failed
\* writes job, with its error_message, and leaves both errors alone.
C11_FailuresNotConflated ==
    [][/\ \A r \in BagToSet(createReqs) :
              (mounted /\ CreateFail(r))
                  => (submitError' = SubmitErrMsg /\ UNCHANGED <<error, job>>)
       /\ \A f \in BagToSet(inFlight) :
              (mounted /\ RespErr(f))
                  => (error' = PollErrMsg /\ UNCHANGED <<submitError, job>>)
       /\ \A f \in BagToSet(inFlight) :
              (mounted /\ RespData(f, "failed"))
                  => /\ job' = [id |-> f.job, status |-> "failed",
                                error_message |-> JobErrMsg]
                     /\ UNCHANGED <<submitError, error>>]_vars

\* all three failures on display at once, each in its own channel
C11_Witness ==
    /\ mounted
    /\ submitError = SubmitErrMsg
    /\ error = PollErrMsg
    /\ job.status = "failed"
    /\ job.error_message = JobErrMsg

\* ---- C12: one session, one timer
\* C12: in every reachable state at most one interval is armed, and it is the
\* one the ref holds, armed for the bound job id.
C12_OneTimer ==
    /\ Cardinality(timers) <= 1
    /\ \A t \in timers : t = intervalRef /\ t = jobId
    /\ intervalRef # 0 => intervalRef \in timers

\* the second job is polled and the first job's timer is gone
C12_Witness ==
    /\ mounted
    /\ jobId = 2
    /\ isPolling
    /\ timers = {2}
    /\ intervalRef = 2

\* ---- C13: a terminal job is immutable
\* C13 (as claimed): once the poller shows the job assigned last with status
\* completed or failed, the job value it shows does not change until the next
\* job id is assigned.
C13_TerminalJobImmutable ==
    [][(/\ mounted /\ mounted'
        /\ LastJob # 0 /\ LastJob' = LastJob
        /\ job.id = LastJob
        /\ job.status \in {"completed", "failed"}) => job' = job]_vars

\* ---- C14: a filter change clears the selection
\* C14: every step that changes the filters leaves the selection empty (and the
\* page at the first one): no state has new filters with an old selection.
C14_FilterChangeClears ==
    [][filters' # filters => (selectedIds' = {} /\ skip' = 0)]_vars

\* other filters are active, a creation request made under the old ones is
\* still in flight, and the selection it was made from is gone
C14_Witness ==
    /\ mounted
    /\ filters # INITIAL_FILTERS
    /\ selectedIds = {}
    /\ createReqs # EmptyBag
    /\ \A j \in JobIds : srv[j] = "none"

\* ---- C15: a finished job does not block the next submission
\* C15: when the bound job has shown a terminal status or a polling error, a
\* click on Process with a non-empty selection is accepted; an accepted click
\* issues exactly one creation request, carrying the selection of that moment;
\* its success binds the returned job id, sets isPolling, arms the timer of the
\* new job and issues its first fetch.
C15_FinishedJobResubmit ==
    /\ []((mounted /\ jobId # 0 /\ jobId \in ended /\ selectedIds # {})
              => SubmitAccepted)
    /\ [][/\ (Submit /\ SubmitAccepted)
                 => createReqs' = createReqs (+) SetToBag({[ids |-> selectedIds]})
          /\ \A r \in BagToSet(createReqs) : \A nj \in JobIds :
                 (mounted /\ CreateOk(r, nj))
                     => /\ jobId' = nj
                        /\ isPolling'
                        /\ timers' = {nj}
                        /\ Issued(nj)]_vars

\* the first job has ended and the second submission is being polled
C15_Witness ==
    /\ mounted
    /\ 1 \in ended
    /\ jobId = 2
    /\ isPolling
    /\ \E f \in BagToSet(inFlight) : f.job = 2

\* ---- C16: completion empties the selection
\* C16: a response reporting completed defers a call of onComplete; when that
\* call runs it empties the selection and requests the documents again; and an
\* empty selection only becomes non-empty through a toggle.
C16_CompletionClearsSelection ==
    [][/\ \A f \in BagToSet(inFlight) :
              (mounted /\ RespData(f, "completed")) => pendingComplete'[f.job] > 0
       /\ \A j \in JobIds :
              (mounted /\ Complete(j)) => (selectedIds' = {} /\ docsInFlight' > 0)
       /\ (selectedIds = {} /\ selectedIds' # {}) => \E id \in Docs : Toggle(id)]_vars

\* the first job completed, its callback has run, the selection is empty
C16_Witness ==
    /\ mounted
    /\ jobId = 1
    /\ job = [id |-> 1, status |-> "completed", error_message |-> Null]
    /\ completeCalls[1] >= 1
    /\ selectedIds = {}
    /\ docsInFlight > 0

\* ---- C17: the first fetch is immediate, isPolling lasts the session
\* C17 (as claimed): the step that binds a job id issues one fetch for it and
\* sets isPolling; and isPolling is true as long as that job id is bound and
\* none of its fetches has returned a terminal status or failed.
C17_ImmediateFetchAndPolling ==
    /\ [][\A r \in BagToSet(createReqs) : \A nj \in JobIds :
              (mounted /\ CreateOk(r, nj)) => (Issued(nj) /\ isPolling')]_vars
    /\ []((mounted /\ jobId # 0 /\ jobId \notin ended) => isPolling)

\* ---- C18: outputs of the current session only
\* C18 (as claimed): while no job id is bound the poller shows no job and no
\* error, and the step that binds a job id leaves both null.
C18_OutputsOfCurrentSession ==
    /\ []((mounted /\ jobId = 0) => (job = NoJob /\ error = Null))
    /\ [][\A r \in BagToSet(createReqs) : \A nj \in JobIds :
              (mounted /\ CreateOk(r, nj)) => (job' = NoJob /\ error' = Null)]_vars

C20_ForeignResponseHarmless ==
    [][\A f \in BagToSet(inFlight) :
           (mounted /\ jobId # 0 /\ jobId \notin ended /\ f.job # jobId /\ Delivered(f))
               => (UNCHANGED <<timers, intervalRef>> /\ (isPolling => isPolling'))]_vars

\* ---- C21: isPolling mirrors the timer
\* C21: in every reachable state isPolling is true exactly when a timer is
\* armed for the tracked job id.
C21_PollingIffTimer ==
    isPolling <=> (jobId # 0 /\ jobId \in timers)

\* both sides have been true and are false again: a session ran and was ended
\* by a response while its job id is still bound
C21_Witness ==
    /\ mounted
    /\ jobId = 1
    /\ 1 \in ended
    /\ ~isPolling
    /\ timers = {}

\* ---- C22: what removes ids from the selection
\* C22 (as claimed): while the page is mounted an id leaves the selection only
\* in a toggle of that id, in a filter change, or in the run of the completion
\* callback that belongs to a job's transition into completed (the first run
\* for that job); every other step keeps every selected id.
C22_SelectionLosesIdsOnlyBy ==
    [][(mounted /\ mounted')
           => \A id \in selectedIds \ selectedIds' :
                  \/ Toggle(id)
                  \/ \E f \in FilterVals : FilterChange(f)
                  \/ \E j \in JobIds : Complete(j) /\ completeCalls[j] = 0]_vars

\* ---- C23: every session ends
\* C23: under fair scheduling of ticks, responses and deferred callbacks, and
\* a server that finishes every job, every polling session eventually ends
\* with isPolling false and no timer armed, and a job shown as completed
\* eventually has the completion callback invoked for it.
C23_SessionEnds ==
    /\ \A j \in JobIds :
           (mounted /\ jobId = j /\ isPolling /\ j \in timers)
               ~> (~isPolling /\ timers = {})
    /\ \A j \in JobIds :
           (mounted /\ job.id = j /\ job.status = "completed")
               ~> (completeCalls[j] >= 1)

\* the second session ended on its own completed status and its callback ran
C23_Witness ==
    /\ mounted
    /\ jobId = 2
    /\ job = [id |-> 2, status |-> "completed", error_message |-> Null]
    /\ 2 \in ended
    /\ ~isPolling /\ timers = {}
    /\ completeCalls[2] >= 1

====
